---------------------------- MODULE Spec2Model ----------------------------
(***************************************************************************)
(* State-machine model of src/src/mcp_server_nextgen/server.py: the two    *)
(* module-level stores (internal_resources = staging, resources =          *)
(* published), the dynamic tool table, and the protocol handlers           *)
(* handle_call_tool, handle_list_tools, handle_read_resource and           *)
(* handle_list_resources.  A handler is cut into atomic steps at its       *)
(* `await` points (an HTTP request, a notification send); everything       *)
(* between two awaits is one action.                                       *)
(***************************************************************************)
EXTENDS Integers, Sequences, FiniteSets, TLC

VARIABLES
    internal_resources,   \* server.py:48  kind -> dict (staging; "workqueues": name -> row)
    resources,            \* server.py:55  kind -> dict (published)
    csvfile,              \* the rows of TOOLS_CSV_FILE as csv.DictReader yields them
    call                  \* caller -> the handler invocation it has in flight

vars == <<internal_resources, resources, csvfile, call>>

(***************************************************************************)
(* Bounds of the model.                                                    *)
(***************************************************************************)
\* the listing server answers at most this many pages in one walk (Spec)
MaxPages == 2
\* the same for the specification of the walker alone (SpecWalk)
MaxWalkPages == 3
\* the same for the specification of the response envelopes (SpecEnvelope)
MaxEnvelopePages == 2
\* the same for the specification of two overlapping retrievals (SpecRace)
MaxRacePages == 2

(***************************************************************************)
(* Python values.  None is the empty option <<>>, a present value v is     *)
(* <<v>>.  A dict is the sequence of its <<key, value>> pairs in insertion *)
(* order (keys unique); a JSON object / csv row is a function on its keys. *)
(***************************************************************************)
None == <<>>

Some(v) == <<v>>

\* d.get(k) on a JSON object or csv row
Get(d, k) == IF k \in DOMAIN d THEN Some(d[k]) ELSE None

\* truthiness of an optional string: None and "" are falsy
TruthyStr(o) == o # None /\ o[1] # ""

EmptyDict == <<>>

DictKeys(d) == {d[i][1] : i \in 1..Len(d)}

DictHas(d, k) == k \in DictKeys(d)

DictIndex(d, k) == CHOOSE i \in 1..Len(d) : d[i][1] = k

DictGet(d, k) == d[DictIndex(d, k)][2]

\* d[k] = v : an existing key keeps its position, a new key is appended
DictSet(d, k, v) ==
    IF DictHas(d, k)
    THEN [d EXCEPT ![DictIndex(d, k)] = <<k, v>>]
    ELSE Append(d, <<k, v>>)

\* the key/value pairs of a dict, order forgotten (dict equality in Python)
DictItems(d) == {d[i] : i \in 1..Len(d)}

(***************************************************************************)
(* Configuration (server.py:34-43) and the entity kinds (server.py:48-61). *)
(* A URL is the sequence of its path segments below BASE_URL; an absolute  *)
(* continuation link is a one-segment URL.                                 *)
(***************************************************************************)
Kinds == {"automationflows", "activitylogs", "digitalworkers", "sessions", "workqueues"}

AUTOMATIONFLOW_URL == <<"automation-flows">>

ACTIVITYLOG_URL == <<"automation-flows", "executions">>

DIGITALWORKER_URL == <<"digital-workers">>

SESSION_URL == <<"sessions">>


(***************************************************************************)
(* The bounded universe of strings whose prefix the code tests.            *)
(* str.startswith is modelled by membership in the set of those strings of *)
(* the universe that have the prefix.                                      *)
(***************************************************************************)
\* continuation values a listing page can carry
PageTokens == {"tok1", "tok2"}

NextLinks == {"http://h/p2", "http://h/p3"}

\* next_token.startswith("http")                          (server.py:127)
StartsWithHttp(s) == s \in NextLinks

ListingTools ==
    {"retrieve-automation-flow-list", "retrieve-activity-log-list",
     "retrieve-digital-worker-list", "retrieve-session-list"}

\* name.startswith("retrieve-")                           (server.py:451)
StartsWithRetrieve(name) == name \in ListingTools \cup {"retrieve-bogus"}

(***************************************************************************)
(* retrieve_entities (server.py:107-139), its pure parts.                  *)
(***************************************************************************)
\* params = {} ; if "environment" in args: params["environmentId.eq"] = ...
InitialParams(args) ==
    IF "environment" \in DOMAIN args
    THEN [k \in {"environmentId.eq"} |-> args["environment"]]
    ELSE <<>>

\* items = response.get("items") or response.get("value", [])
PageItems(response) ==
    IF "items" \in DOMAIN response /\ response["items"] # <<>>
    THEN response["items"]
    ELSE IF "value" \in DOMAIN response THEN response["value"] ELSE <<>>

\* entity = item.get("entity", item)
ItemEntity(item) == IF "entity" \in DOMAIN item THEN item["entity"] ELSE item

\* entity_id = entity.get("id") ; if entity_id: store[entity_id] = entity
MergeItem(store, item) ==
    LET entity == ItemEntity(item)
        entity_id == Get(entity, "id")
    IN  IF TruthyStr(entity_id) THEN DictSet(store, entity_id[1], entity) ELSE store

\* for item in items: ...
RECURSIVE MergePage(_, _)
MergePage(store, items) ==
    IF items = <<>> THEN store
    ELSE MergePage(MergeItem(store, Head(items)), Tail(items))

\* mutant: the continuation is looked at only when the page held items
NextTokenIfItems(response) ==
    IF PageItems(response) = <<>> THEN None
    ELSE IF TruthyStr(Get(response, "nextPageToken"))
    THEN Get(response, "nextPageToken")
    ELSE Get(response, "@odata.nextLink")

\* next_token = response.get("nextPageToken") or response.get("@odata.nextLink")
NextToken(response) ==
    IF TruthyStr(Get(response, "nextPageToken"))
    THEN Get(response, "nextPageToken")
    ELSE Get(response, "@odata.nextLink")

\* the url of the next request                            (server.py:126-131)
NextUrl(url, next_token) == IF StartsWithHttp(next_token) THEN <<next_token>> ELSE url

\* the params of the next request                         (server.py:126-131)
NextParams(next_token) ==
    IF StartsWithHttp(next_token) THEN <<>>
    ELSE [k \in {"pagetoken"} |-> next_token]

\* async_request("GET", url, token, params=params) as the server sees it
GetRequest(url, params) == [method |-> "GET", url |-> url, params |-> params, json |-> None]

(***************************************************************************)
(* format_resource_result (server.py:171-177).  A text is the sequence of  *)
(* the pieces joined; "sep".join(xs) puts sep between the pieces.          *)
(***************************************************************************)
RECURSIVE Join(_, _)
Join(sep, xs) ==
    IF xs = <<>> THEN <<>>
    ELSE IF Len(xs) = 1 THEN Head(xs)
    ELSE Head(xs) \o <<sep>> \o Join(sep, Tail(xs))

\* mutant: str(val.get(field)) -- an absent field is rendered as None
FormatRowAbsentNone(key, val, fields) ==
    Join("|", <<(<<key>>)>> \o
              [i \in 1..Len(fields) |->
                  <<IF fields[i] \in DOMAIN val THEN val[fields[i]] ELSE "None">>])

\* row = [val.get(field, "") for field in fields] ; "|".join([key] + row)
FormatRow(key, val, fields) ==
    Join("|", <<(<<key>>)>> \o
              [i \in 1..Len(fields) |->
                  <<IF fields[i] \in DOMAIN val THEN val[fields[i]] ELSE "">>])

format_resource_result(store, fields) ==
    Join("\n", [i \in 1..Len(store) |-> FormatRow(store[i][1], store[i][2], fields)])

(***************************************************************************)
(* The dynamic tool table (server.py:153-169).  A csv row is a function on *)
(* the header's columns; the cells the code parses character by character  *)
(* (priority, tags) are sequences of characters, the others opaque strings.*)
(***************************************************************************)
Digits == <<"0", "1", "2", "3", "4", "5", "6", "7", "8", "9">>

IsDigit(ch) == \E i \in 1..10 : Digits[i] = ch

DigitValue(ch) == (CHOOSE i \in 1..10 : Digits[i] = ch) - 1

\* str.strip() on a sequence of characters
RECURSIVE Strip(_)
Strip(s) ==
    IF s = <<>> THEN s
    ELSE IF Head(s) = " " THEN Strip(Tail(s))
    ELSE IF s[Len(s)] = " " THEN Strip(SubSeq(s, 1, Len(s) - 1))
    ELSE s

RECURSIVE DigitsValue(_, _)
DigitsValue(s, acc) ==
    IF s = <<>> THEN acc ELSE DigitsValue(Tail(s), 10 * acc + DigitValue(Head(s)))

\* int(text): surrounding blanks dropped, an optional sign, then digits only;
\* None stands for the ValueError
ParseInt(text) ==
    LET t == Strip(text)
        signed == t # <<>> /\ Head(t) \in {"+", "-"}
        ds == IF signed THEN Tail(t) ELSE t
    IN  IF ds = <<>> \/ \E i \in 1..Len(ds) : ~IsDigit(ds[i]) THEN None
        ELSE IF signed /\ Head(t) = "-" THEN Some(0 - DigitsValue(ds, 0))
        ELSE Some(DigitsValue(ds, 0))

\* text.split(",")
RECURSIVE SplitComma(_)
SplitComma(s) ==
    IF \A i \in 1..Len(s) : s[i] # "," THEN <<s>>
    ELSE LET i == CHOOSE j \in 1..Len(s) :
                      s[j] = "," /\ \A k \in 1..(j - 1) : s[k] # ","
         IN  <<SubSeq(s, 1, i - 1)>> \o SplitComma(SubSeq(s, i + 1, Len(s)))

\* [tag.strip() for tag in text.split(",")]
Tags(text) == LET parts == SplitComma(text) IN [i \in 1..Len(parts) |-> Strip(parts[i])]

\* mutant: config.get("priority", "100") -- an empty cell is not defaulted
PriorityKeepsEmpty(config) ==
    LET p == Get(config, "priority")
    IN  ParseInt(IF p # None THEN p[1] ELSE <<"1", "0", "0">>)

\* int(config.get("priority") or "100")                  (server.py:403, 417)
Priority(config) ==
    LET p == Get(config, "priority")
    IN  ParseInt(IF p # None /\ p[1] # <<>> THEN p[1] ELSE <<"1", "0", "0">>)

\* json.loads(row["inputSchema"]) accepted by types.Tool: the table of the
\* schema texts of the universe; None stands for the exception
JsonLoads(text) ==
    IF text = "{}" THEN Some([properties |-> {}])
    ELSE IF text = "{\"properties\": {\"invoice\": {}}}"
         THEN Some([properties |-> {"invoice"}])
    ELSE None

\* one pass of `for row in reader` ; acc = [tools, workqueues] ; an exception
\* (a missing column, a bad inputSchema) ends the loop   (server.py:159-168)
RECURSIVE LoadRows(_, _)
LoadRows(rows, acc) ==
    IF rows = <<>> THEN acc
    ELSE LET row == Head(rows)
             ok == /\ {"name", "description", "inputSchema"} \subseteq DOMAIN row
                   /\ JsonLoads(row["inputSchema"]) # None
         IN  IF ~ok THEN acc
             ELSE LoadRows(Tail(rows),
                    [tools |-> Append(acc.tools,
                                 [name |-> row["name"],
                                  description |-> row["description"],
                                  inputSchema |-> JsonLoads(row["inputSchema"])[1]]),
                     workqueues |-> DictSet(acc.workqueues, row["name"], row)])

\* mutant: the try block stands inside the loop -- a bad row is skipped and
\* the rows after it are still loaded
RECURSIVE LoadRowsSkipBad(_, _)
LoadRowsSkipBad(rows, acc) ==
    IF rows = <<>> THEN acc
    ELSE LET row == Head(rows)
             ok == /\ {"name", "description", "inputSchema"} \subseteq DOMAIN row
                   /\ JsonLoads(row["inputSchema"]) # None
         IN  IF ~ok THEN LoadRowsSkipBad(Tail(rows), acc)
             ELSE LoadRowsSkipBad(Tail(rows),
                    [tools |-> Append(acc.tools,
                                 [name |-> row["name"],
                                  description |-> row["description"],
                                  inputSchema |-> JsonLoads(row["inputSchema"])[1]]),
                     workqueues |-> DictSet(acc.workqueues, row["name"], row)])

load_tools_skipping_bad(rows, workqueues) ==
    LoadRowsSkipBad(rows, [tools |-> <<>>, workqueues |-> workqueues])

\* mutant: the lookup is cleared at the start of a load
load_tools_clearing(rows, workqueues) ==
    LoadRows(rows, [tools |-> <<>>, workqueues |-> EmptyDict])

\* load_tools_from_csv: the descriptors returned and the lookup afterwards
load_tools_from_csv(rows, workqueues) ==
    LoadRows(rows, [tools |-> <<>>, workqueues |-> workqueues])

\* the names of the fixed descriptors, in order          (server.py:297-382)
FixedTools ==
    <<"retrieve-automation-flow-list", "start-automation-flow",
      "retrieve-activity-log-list", "retrieve-digital-worker-list",
      "retrieve-session-list">>

\* the properties each fixed descriptor's inputSchema declares
FixedProperties(name) ==
    IF name = "start-automation-flow" THEN {"automation_flow_id"}
    ELSE IF name = "retrieve-digital-worker-list" THEN {"set_resource"}
    ELSE {"environment", "set_resource"}

fixed_tools ==
    [i \in 1..Len(FixedTools) |->
        [name |-> FixedTools[i], description |-> FixedTools[i],
         inputSchema |-> [properties |-> FixedProperties(FixedTools[i])]]]

(***************************************************************************)
(* create_collection_xml (server.py:144-151).  ElementTree serialises      *)
(* string attribute values only: any other value is a TypeError (None).    *)
(* In the argument universe set_resource alone carries a non-string.       *)
(***************************************************************************)
create_collection_xml(fields) ==
    IF "set_resource" \in DOMAIN fields THEN None
    ELSE Some([encoding |-> "base64(xml)", row |-> fields])

\* the JSON body of the work-queue POST                   (server.py:415-422)
WorkQueuePayload(config, arguments) ==
    [keyValue |-> IF "keyValue" \in DOMAIN config THEN config["keyValue"] ELSE "Key0001",
     priority |-> Priority(config)[1],
     deferredUntil |-> None,
     status |-> IF "status" \in DOMAIN config THEN config["status"]
                ELSE "Added by MCP Server",
     tags |-> Tags(IF "tags" \in DOMAIN config /\ config["tags"] # <<>>
                   THEN config["tags"] ELSE <<"t", "a", "g", "1">>),
     data |-> create_collection_xml(arguments)[1]]

(***************************************************************************)
(* Handler invocations.  pc is the await the handler is suspended at:      *)
(*   "wq_post"   the work-queue POST            (server.py:411)            *)
(*   "sf_post"   the start-flow POST            (server.py:438)            *)
(*   "sf_notify" send_resource_list_changed     (server.py:443)            *)
(*   "rt_get"    a listing GET of the walker    (server.py:117)            *)
(*   "rt_notify" send_resource_list_changed     (server.py:471)            *)
(*   "rr_get"    the detail GET of a read       (server.py:234)            *)
(*   "done"      the handler has returned or raised; Return hands the      *)
(*               result to the caller.                                     *)
(* branch is the arm of handle_call_tool's if/elif chain taken at entry,   *)
(* reqs the HTTP requests this invocation has issued, answer the response  *)
(* to its POST or detail GET, walk the listing responses its walker has    *)
(* received, failed whether a listing request failed, res0 the published   *)
(* store at entry.                                                         *)
(***************************************************************************)
Callers == {1, 2}

\* the callers of the single-caller specifications
SeqCallers == {1}

EmptyStores == [k \in Kinds |-> EmptyDict]

NoResult == [out |-> "none", tmpl |-> "", n |-> 0, key |-> "", e |-> "", body |-> <<>>]

\* return [types.TextContent(type="text", text=f"...")]
Text(tmpl, n, key, e, body) ==
    [out |-> "text", tmpl |-> tmpl, n |-> n, key |-> key, e |-> e, body |-> body]

\* raise ValueError(f"...")
Raise(tmpl, e) ==
    [out |-> "raise", tmpl |-> tmpl, n |-> 0, key |-> "", e |-> e, body |-> <<>>]

Idle ==
    [pc |-> "idle", op |-> "", name |-> "", arguments |-> None, branch |-> "",
     key |-> "", url |-> <<>>, params |-> <<>>, reqs |-> <<>>, answer |-> None,
     walk |-> <<>>,
     notified |-> FALSE, failed |-> FALSE, result |-> NoResult,
     res0 |-> EmptyStores]

\* the invocation record at handler entry
Enter(op, name, arguments, branch) ==
    [Idle EXCEPT !.op = op, !.name = name, !.arguments = arguments,
                 !.branch = branch, !.res0 = resources]

\* the handler returns or raises `result`
Finish(rec, result) == [rec EXCEPT !.pc = "done", !.result = result]

\* `if not arguments`
NotArguments(arguments) == arguments = None \/ DOMAIN arguments[1] = {}

\* get_access_token() and `if not token` : the error raised, or None
\* (server.py:66-75, 395-397)
TokenError(tok) ==
    IF ~tok.ok THEN Some("token request failed")
    ELSE IF tok.val = "" THEN Some("Invalid Client ID or Secret")
    ELSE None

\* mutant: the built-in names are tested before the work-queue lookup
DispatchBuiltInsFirst(name) ==
    IF name = "start-automation-flow" THEN "startflow"
    ELSE IF StartsWithRetrieve(name) THEN "retrieve"
    ELSE IF DictHas(internal_resources["workqueues"], name) THEN "workqueue"
    ELSE "unknown"

\* the branch of the if/elif chain a name takes          (server.py:390-493)
Dispatch(name) ==
    IF DictHas(internal_resources["workqueues"], name) THEN "workqueue"
    ELSE IF name = "start-automation-flow" THEN "startflow"
    ELSE IF StartsWithRetrieve(name) THEN "retrieve"
    ELSE "unknown"

\* mapping = {...}                                        (server.py:453-458)
RetrieveMapping(name) ==
    IF name = "retrieve-automation-flow-list"
    THEN [url |-> AUTOMATIONFLOW_URL, key |-> "automationflows",
          fields |-> <<"name", "description">>]
    ELSE IF name = "retrieve-activity-log-list"
    THEN [url |-> ACTIVITYLOG_URL, key |-> "activitylogs",
          fields |-> <<"status", "automationFlowName">>]
    ELSE IF name = "retrieve-digital-worker-list"
    THEN [url |-> DIGITALWORKER_URL, key |-> "digitalworkers",
          fields |-> <<"hostName", "status">>]
    ELSE [url |-> SESSION_URL, key |-> "sessions",
          fields |-> <<"status", "requestedDate">>]

(***************************************************************************)
(* handle_call_tool, work-queue branch (server.py:390-427).                *)
(***************************************************************************)
\* the exception raised before the POST is issued, or None
WorkQueueError(config, arguments, tok) ==
    IF NotArguments(arguments) THEN Some("Missing arguments")
    ELSE IF TokenError(tok) # None THEN TokenError(tok)
    ELSE IF "workqueueid" \notin DOMAIN config THEN Some("'workqueueid'")
    ELSE IF Priority(config) = None THEN Some("invalid literal for int() with base 10")
    ELSE IF create_collection_xml(arguments[1]) = None THEN Some("cannot serialize")
    ELSE None

CallWorkQueue(c, name, arguments, tok) ==
    /\ call[c].pc = "idle"
    /\ Dispatch(name) = "workqueue"
    /\ LET config == DictGet(internal_resources["workqueues"], name)
           err == WorkQueueError(config, arguments, tok)
           rec == Enter("call_tool", name, arguments, "workqueue")
       IN  call' = [call EXCEPT ![c] =
             IF err # None
             THEN Finish(rec, Text("Error creating work queue item: {e}", 0, "", err[1], <<>>))
             ELSE [rec EXCEPT
                     !.pc = "wq_post",
                     !.url = <<"work-queues", config["workqueueid"], "items">>,
                     !.reqs = <<[method |-> "POST",
                                 url |-> <<"work-queues", config["workqueueid"], "items">>,
                                 params |-> <<>>,
                                 json |-> Some(WorkQueuePayload(config, arguments[1]))]>>]]
    /\ UNCHANGED <<internal_resources, resources, csvfile>>

\* the POST completes: resp.ok, resp.body the JSON object returned
WorkQueueResponse(c, resp) ==
    /\ call[c].pc = "wq_post"
    /\ call' = [call EXCEPT ![c] =
         IF ~resp.ok
         THEN Finish([@ EXCEPT !.answer = Some(resp)],
                     Text("Error creating work queue item: {e}", 0, "",
                          "request failed", <<>>))
         ELSE Finish([@ EXCEPT !.answer = Some(resp)],
                     Text("Work queue item created: {itemId}", 0, "",
                          IF "itemId" \in DOMAIN resp.body
                          THEN resp.body["itemId"] ELSE "None", <<>>))]
    /\ UNCHANGED <<internal_resources, resources, csvfile>>

(***************************************************************************)
(* handle_call_tool, start-flow branch (server.py:429-449).                *)
(***************************************************************************)
StartFlowError(arguments, tok) ==
    IF NotArguments(arguments) THEN Some("Missing arguments")
    ELSE IF TokenError(tok) # None THEN TokenError(tok)
    ELSE IF "automation_flow_id" \notin DOMAIN arguments[1]
         THEN Some("'automation_flow_id'")
    ELSE None

CallStartFlow(c, name, arguments, tok) ==
    /\ call[c].pc = "idle"
    /\ Dispatch(name) = "startflow"
    /\ LET err == StartFlowError(arguments, tok)
           rec == Enter("call_tool", name, arguments, "startflow")
       IN  call' = [call EXCEPT ![c] =
             IF err # None
             THEN Finish(rec, Text("Error starting automation flow: {e}", 0, "", err[1], <<>>))
             ELSE LET url == AUTOMATIONFLOW_URL \o
                             <<arguments[1]["automation_flow_id"], "executions">>
                  IN  [rec EXCEPT
                         !.pc = "sf_post",
                         !.url = url,
                         !.reqs = <<[method |-> "POST", url |-> url,
                                     params |-> <<>>, json |-> None]>>]]
    /\ UNCHANGED <<internal_resources, resources, csvfile>>

\* exec_id = result.get("id", "")
ExecId(body) == IF "id" \in DOMAIN body THEN body["id"] ELSE ""

\* mutant: the execution is not registered
RegisterNothing(published, exec_id) == published

\* resources["activitylogs"][exec_id] = {"id": exec_id}   (server.py:441)
RegisterExecution(published, exec_id) ==
    [published EXCEPT !["activitylogs"] = DictSet(@, exec_id, [id |-> exec_id])]

\* the POST completes; with an execution id the entry is registered and the
\* notification sent (the handler is then suspended in the send)
StartFlowResponse(c, resp) ==
    /\ call[c].pc = "sf_post"
    /\ IF resp.ok /\ ExecId(resp.body) # ""
       THEN /\ resources' = RegisterExecution(resources, ExecId(resp.body))
            /\ call' = [call EXCEPT ![c] =
                 [@ EXCEPT !.pc = "sf_notify", !.notified = TRUE,
                           !.answer = Some(resp),
                           !.result = Text("Started automation flow: {exec_id}", 0, "",
                                           ExecId(resp.body), <<>>)]]
       ELSE /\ resources' = resources
            /\ call' = [call EXCEPT ![c] =
                 Finish([@ EXCEPT !.answer = Some(resp)],
                        Text("Error starting automation flow: {e}", 0, "",
                             IF resp.ok THEN "Execution ID not returned"
                             ELSE "request failed", <<>>))]
    /\ UNCHANGED <<internal_resources, csvfile>>

\* the send completes: return "Started automation flow"
StartFlowNotified(c) ==
    /\ call[c].pc = "sf_notify"
    /\ call' = [call EXCEPT ![c].pc = "done"]
    /\ UNCHANGED <<internal_resources, resources, csvfile>>

(***************************************************************************)
(* handle_call_tool, retrieve branch (server.py:451-490) with              *)
(* retrieve_entities inlined (server.py:107-139).                          *)
(***************************************************************************)
\* arguments.get("set_resource") is truthy
SetResource(arguments) ==
    "set_resource" \in DOMAIN arguments[1] /\ arguments[1]["set_resource"]

\* mutant: the publish step is lost
PublishNothing(published, staging, key) == published

\* mutant: the publish step updates the published mapping entry by entry
\* (dict.update) and keeps what staging no longer holds
RECURSIVE DictUpdate(_, _)
DictUpdate(d, entries) ==
    IF entries = <<>> THEN d
    ELSE DictUpdate(DictSet(d, Head(entries)[1], Head(entries)[2]), Tail(entries))

PublishUpdate(published, staging, key) ==
    [published EXCEPT ![key] = DictUpdate(@, staging[key])]

\* mutant: the publish step copies the staging mapping of every kind
PublishAllKinds(published, staging, key) == [k \in Kinds |-> staging[k]]

\* resources[key] = internal_resources[key].copy()        (server.py:474)
Publish(published, staging, key) == [published EXCEPT ![key] = staging[key]]

\* mutant: the store is not cleared before the walk
ClearStoreKeeps(staging, key) == staging

\* mutant: the store is left alone while another retrieval of the kind is
\* in its walk
ClearStoreUnlessBusy(staging, key) ==
    IF \E d \in Callers : call[d].pc = "rt_get" /\ call[d].key = key
    THEN staging
    ELSE [staging EXCEPT ![key] = EmptyDict]

\* store.clear()                                          (server.py:110)
ClearStore(staging, key) == [staging EXCEPT ![key] = EmptyDict]

\* mutant: a failed request discards what the walk had merged
WalkerExceptClears(staging, key) == [staging EXCEPT ![key] = EmptyDict]

\* except Exception: return store -- the store as the failure found it
\* (server.py:137-139)
WalkerExcept(staging, key) == staging

\* mutant: the store is cleared before the credential is acquired
CallRetrieveClearsFirst(c, name, arguments, tok) ==
    /\ call[c].pc = "idle"
    /\ Dispatch(name) = "retrieve"
    /\ LET rec == Enter("call_tool", name, arguments, "retrieve")
           m == RetrieveMapping(name)
           args == IF NotArguments(arguments) THEN <<>> ELSE arguments[1]
       IN  IF name \notin ListingTools
           THEN /\ call' = [call EXCEPT ![c] =
                     Finish(rec, Raise("Unknown tool: {name}", name))]
                /\ UNCHANGED internal_resources
           ELSE IF TokenError(tok) # None
           THEN /\ call' = [call EXCEPT ![c] =
                     Finish([rec EXCEPT !.key = m.key],
                            Text("Error {key}: {e}", 0, m.key, TokenError(tok)[1], <<>>))]
                /\ internal_resources' = ClearStore(internal_resources, m.key)
           ELSE /\ internal_resources' = ClearStore(internal_resources, m.key)
                /\ call' = [call EXCEPT ![c] =
                     [rec EXCEPT !.pc = "rt_get", !.key = m.key, !.url = m.url,
                                 !.params = InitialParams(args),
                                 !.reqs = <<GetRequest(m.url, InitialParams(args))>>]]
    /\ UNCHANGED <<resources, csvfile>>

\* entry up to the first listing GET: the mapping lookup, the token, then
\* retrieve_entities clears the store and issues the request
CallRetrieve(c, name, arguments, tok) ==
    /\ call[c].pc = "idle"
    /\ Dispatch(name) = "retrieve"
    /\ LET rec == Enter("call_tool", name, arguments, "retrieve")
           m == RetrieveMapping(name)
           args == IF NotArguments(arguments) THEN <<>> ELSE arguments[1]
       IN  IF name \notin ListingTools
           THEN /\ call' = [call EXCEPT ![c] =
                     Finish(rec, Raise("Unknown tool: {name}", name))]
                /\ UNCHANGED internal_resources
           ELSE IF TokenError(tok) # None
           THEN /\ call' = [call EXCEPT ![c] =
                     Finish([rec EXCEPT !.key = m.key],
                            Text("Error {key}: {e}", 0, m.key, TokenError(tok)[1], <<>>))]
                /\ UNCHANGED internal_resources
           ELSE /\ internal_resources' = ClearStore(internal_resources, m.key)
                /\ call' = [call EXCEPT ![c] =
                     [rec EXCEPT !.pc = "rt_get", !.key = m.key, !.url = m.url,
                                 !.params = InitialParams(args),
                                 !.reqs = <<GetRequest(m.url, InitialParams(args))>>]]
    /\ UNCHANGED <<resources, csvfile>>

\* mutant: the published mapping is replaced as soon as the walker returns,
\* before the notification is sent
RetrievePagePublishes(c, resp) ==
    /\ call[c].pc = "rt_get"
    /\ LET rec == call[c]
           next_token == NextToken(resp.body)
           merged == [internal_resources EXCEPT
                        ![rec.key] = MergePage(@, PageItems(resp.body))]
           asked == rec.arguments # None /\ SetResource(rec.arguments)
       IN  IF ~resp.ok
           THEN /\ call' = [call EXCEPT ![c] =
                     [rec EXCEPT !.pc = "rt_notify", !.failed = TRUE, !.notified = TRUE]]
                /\ internal_resources' = WalkerExcept(internal_resources, rec.key)
                /\ resources' = IF asked THEN Publish(resources, internal_resources, rec.key)
                                 ELSE resources
           ELSE /\ internal_resources' = merged
                /\ resources' = IF asked /\ ~TruthyStr(next_token)
                                 THEN Publish(resources, merged, rec.key)
                                 ELSE resources
                /\ call' = [call EXCEPT ![c] =
                     IF TruthyStr(next_token)
                     THEN [rec EXCEPT
                             !.walk = Append(@, resp.body),
                             !.url = NextUrl(rec.url, next_token[1]),
                             !.params = NextParams(next_token[1]),
                             !.reqs = Append(@, GetRequest(NextUrl(rec.url, next_token[1]),
                                                           NextParams(next_token[1])))]
                     ELSE [rec EXCEPT !.walk = Append(@, resp.body),
                                      !.pc = "rt_notify", !.notified = TRUE]]
    /\ UNCHANGED csvfile

\* a listing GET completes: one pass of the `while True` body, up to the
\* next GET or, when the walker returns, up to the notification send
RetrievePage(c, resp) ==
    /\ call[c].pc = "rt_get"
    /\ LET rec == call[c]
           next_token == NextToken(resp.body)
       IN  IF ~resp.ok
           THEN /\ call' = [call EXCEPT ![c] =
                     [rec EXCEPT !.pc = "rt_notify", !.failed = TRUE, !.notified = TRUE]]
                /\ internal_resources' = WalkerExcept(internal_resources, rec.key)
           ELSE /\ internal_resources' =
                     [internal_resources EXCEPT
                        ![rec.key] = MergePage(@, PageItems(resp.body))]
                /\ call' = [call EXCEPT ![c] =
                     IF TruthyStr(next_token)
                     THEN [rec EXCEPT
                             !.walk = Append(@, resp.body),
                             !.url = NextUrl(rec.url, next_token[1]),
                             !.params = NextParams(next_token[1]),
                             !.reqs = Append(@, GetRequest(NextUrl(rec.url, next_token[1]),
                                                           NextParams(next_token[1])))]
                     ELSE [rec EXCEPT !.walk = Append(@, resp.body),
                                      !.pc = "rt_notify", !.notified = TRUE]]
    /\ UNCHANGED <<resources, csvfile>>

\* the send completes: format, publish on set_resource, return
\* (server.py:472-490)
RetrieveNotified(c) ==
    /\ call[c].pc = "rt_notify"
    /\ LET rec == call[c]
           updated_store == internal_resources[rec.key]
           result_text ==
               format_resource_result(updated_store, RetrieveMapping(rec.name).fields)
       IN  IF rec.arguments = None
           THEN /\ call' = [call EXCEPT ![c] =
                     Finish(rec, Text("Error {key}: {e}", 0, rec.key,
                                      "'NoneType' object has no attribute 'get'", <<>>))]
                /\ UNCHANGED resources
           ELSE IF SetResource(rec.arguments)
           THEN /\ resources' = Publish(resources, internal_resources, rec.key)
                /\ call' = [call EXCEPT ![c] =
                     Finish(rec, Text("Resource refreshed. Retrieved {n} {key}.\n{body}",
                                      Len(updated_store), rec.key, "", result_text))]
           ELSE /\ call' = [call EXCEPT ![c] =
                     Finish(rec, Text("Retrieved {n} {key}.\n{body}",
                                      Len(updated_store), rec.key, "", result_text))]
                /\ UNCHANGED resources
    /\ UNCHANGED <<internal_resources, csvfile>>

\* else: raise ValueError(f"Unknown tool: {name}")        (server.py:492-493)
CallUnknown(c, name, arguments) ==
    /\ call[c].pc = "idle"
    /\ Dispatch(name) = "unknown"
    /\ call' = [call EXCEPT ![c] =
         Finish(Enter("call_tool", name, arguments, "unknown"), Raise("Unknown tool: {name}", name))]
    /\ UNCHANGED <<internal_resources, resources, csvfile>>

\* the protocol layer takes the result; the caller may call again
Return(c) ==
    /\ call[c].pc = "done"
    /\ call' = [call EXCEPT ![c] = Idle]
    /\ UNCHANGED <<internal_resources, resources, csvfile>>

(***************************************************************************)
(* handle_list_tools (server.py:293-384), handle_list_resources            *)
(* (server.py:189-209), handle_read_resource (server.py:211-238).          *)
(***************************************************************************)
\* mutant: the loaded descriptors are put before the fixed ones
handle_list_tools_dynamic_first(c) ==
    /\ call[c].pc = "idle"
    /\ LET loaded == load_tools_from_csv(csvfile, internal_resources["workqueues"])
       IN  /\ internal_resources' =
                [internal_resources EXCEPT !["workqueues"] = loaded.workqueues]
           /\ call' = [call EXCEPT ![c] =
                Finish(Enter("list_tools", "", None, ""),
                       [NoResult EXCEPT !.out = "tools",
                                        !.body = loaded.tools \o fixed_tools])]
    /\ UNCHANGED <<resources, csvfile>>

handle_list_tools(c) ==
    /\ call[c].pc = "idle"
    /\ LET loaded == load_tools_from_csv(csvfile, internal_resources["workqueues"])
       IN  /\ internal_resources' =
                [internal_resources EXCEPT !["workqueues"] = loaded.workqueues]
           /\ call' = [call EXCEPT ![c] =
                Finish(Enter("list_tools", "", None, ""),
                       [NoResult EXCEPT !.out = "tools",
                                        !.body = fixed_tools \o loaded.tools])]
    /\ UNCHANGED <<resources, csvfile>>

\* `for schema, objects in resources.items()` : the keys in insertion order
KindOrder == <<"automationflows", "activitylogs", "digitalworkers", "sessions", "workqueues">>

\* the Resource entries of one kind: uri {schema}://internal/{id}, name
KindResources(published, schema) ==
    [i \in 1..Len(published[schema]) |->
        [uri |-> <<schema, "internal", published[schema][i][1]>>,
         name |-> IF "name" \in DOMAIN published[schema][i][2]
                  THEN published[schema][i][2]["name"]
                  ELSE published[schema][i][1]]]

RECURSIVE ListedResources(_, _)
ListedResources(published, schemas) ==
    IF schemas = <<>> THEN <<>>
    ELSE KindResources(published, Head(schemas)) \o ListedResources(published, Tail(schemas))

handle_list_resources(c) ==
    /\ call[c].pc = "idle"
    /\ call' = [call EXCEPT ![c] =
         Finish(Enter("list_resources", "", None, ""),
                [NoResult EXCEPT !.out = "resources",
                                 !.body = ListedResources(resources, KindOrder)])]
    /\ UNCHANGED <<internal_resources, resources, csvfile>>

\* scheme_to_url                                          (server.py:214-223)
SchemeUrl(scheme) ==
    IF scheme \in {"automationflows", "automationflow"} THEN Some(AUTOMATIONFLOW_URL)
    ELSE IF scheme \in {"activitylogs", "activitylog"} THEN Some(ACTIVITYLOG_URL)
    ELSE IF scheme \in {"digitalworkers", "digitalworker"} THEN Some(DIGITALWORKER_URL)
    ELSE IF scheme \in {"sessions", "session"} THEN Some(SESSION_URL)
    ELSE None

\* the detail url: {listing url}/{id}, plus /logs for an activity log
DetailUrl(uri) ==
    SchemeUrl(uri.scheme)[1] \o <<uri.id>> \o
    (IF uri.scheme \in {"activitylog", "activitylogs"} THEN <<"logs">> ELSE <<>>)

\* entry up to the detail GET; the scheme check and get_access_token stand
\* outside the try block
handle_read_resource(c, uri, tok) ==
    /\ call[c].pc = "idle"
    /\ LET rec == Enter("read_resource", uri.scheme, None, "")
       IN  call' = [call EXCEPT ![c] =
             IF SchemeUrl(uri.scheme) = None
             THEN Finish(rec, Raise("Unsupported URI scheme: {scheme}", uri.scheme))
             ELSE IF ~tok.ok
             THEN Finish(rec, Raise("{e}", "token request failed"))
             ELSE [rec EXCEPT !.pc = "rr_get", !.url = DetailUrl(uri),
                              !.reqs = <<GetRequest(DetailUrl(uri), <<>>)>>]]
    /\ UNCHANGED <<internal_resources, resources, csvfile>>

\* the detail GET completes
ReadResponse(c, resp) ==
    /\ call[c].pc = "rr_get"
    /\ call' = [call EXCEPT ![c] =
         IF resp.ok
         THEN Finish([@ EXCEPT !.answer = Some(resp)], Text("{detail}", 0, "", "", <<>>))
         ELSE Finish([@ EXCEPT !.answer = Some(resp)],
                     Text("{\"error\": \"{e}\"}", 0, "", "request failed", <<>>))]
    /\ UNCHANGED <<internal_resources, resources, csvfile>>

\* the operator edits TOOLS_CSV_FILE between two loads
EditCsv(rows) ==
    /\ csvfile # rows
    /\ csvfile' = rows
    /\ UNCHANGED <<internal_resources, resources, call>>

\* main() before the server loop: the first load         (server.py:498-501)
main(rows) ==
    [EmptyStores EXCEPT !["workqueues"] = load_tools_from_csv(rows, EmptyDict).workqueues]

(***************************************************************************)
(* The inputs: what callers pass and what the platform answers.            *)
(***************************************************************************)
\* listing items: a plain entity, an entity wrapped as {"entity": ...} with
\* the id of the first, a second id, an empty id, no id at all
ItemA == [id |-> "e1", name |-> "A"]

ItemB == [entity |-> [id |-> "e1", name |-> "B"]]

ItemC == [id |-> "e2", name |-> "A"]

ItemEmptyId == [id |-> "", name |-> "A"]

ItemNoId == [name |-> "A"]

\* a listing response body: the item list under `carrier`, the continuation
\* value (if any) under `field`
PageBody(carrier, items, field, cont) ==
    [k \in {carrier} \cup (IF cont = "" THEN {} ELSE {field}) |->
        IF k = carrier THEN items ELSE cont]

Ok(body) == [ok |-> TRUE, body |-> body]

\* a transport error, a non-2xx status, an unparsable body: async_request raises
Failed == [ok |-> FALSE, body |-> <<>>]

\* Spec: one item per page at most, continuation by page token
SpecItemLists == {<<ItemA>>, <<ItemC>>, <<ItemEmptyId>>}

SpecPages(more) ==
    {Failed} \cup {Ok(PageBody("items", l, "nextPageToken", t)) :
                     l \in SpecItemLists, t \in IF more THEN {"", "tok1"} ELSE {""}}

\* SpecWalk: both wrappings, duplicate ids in and across pages, falsy ids,
\* both continuation conventions
WalkItemLists ==
    {<<>>, <<ItemA>>, <<ItemB>>, <<ItemC>>, <<ItemEmptyId>>, <<ItemNoId>>,
     <<ItemA, ItemB>>, <<ItemNoId, ItemC>>}

WalkPages(more) ==
    {Failed}
    \cup {Ok(PageBody("items", l, "nextPageToken", "")) : l \in WalkItemLists}
    \cup IF more
         THEN {Ok(PageBody("items", l, "nextPageToken", "tok1")) : l \in WalkItemLists}
              \cup {Ok(PageBody("value", l, "@odata.nextLink", "http://h/p2")) :
                      l \in WalkItemLists}
         ELSE {}

\* SpecEnvelope: a listing response with `items`, with `value`, with both or
\* with neither, each absent, empty or holding one entity; no continuation,
\* a page token or an absolute link
EnvelopeLists == {None, Some(<<>>), Some(<<ItemA>>), Some(<<ItemC>>)}

EnvelopeBody(items, value, cont) ==
    [k \in (IF items = None THEN {} ELSE {"items"})
           \cup (IF value = None THEN {} ELSE {"value"})
           \cup (IF cont = "" THEN {}
                 ELSE IF cont \in NextLinks THEN {"@odata.nextLink"}
                 ELSE {"nextPageToken"}) |->
        IF k = "items" THEN items[1] ELSE IF k = "value" THEN value[1] ELSE cont]

EnvelopePages(more) ==
    {Failed}
    \cup {Ok(EnvelopeBody(i, v, t)) :
            i \in EnvelopeLists, v \in EnvelopeLists,
            t \in IF more THEN {"", "tok1", "http://h/p2"} ELSE {""}}

\* SpecRace: pages of one entity; a last page holds either entity, a page
\* with a page token the first
RacePages(more) ==
    {Failed, Ok(PageBody("items", <<ItemA>>, "nextPageToken", "")),
     Ok(PageBody("items", <<ItemC>>, "nextPageToken", ""))}
    \cup IF more THEN {Ok(PageBody("items", <<ItemA>>, "nextPageToken", "tok1"))} ELSE {}

RaceArguments == {Some([set_resource |-> TRUE]), Some([set_resource |-> FALSE])}

\* the answers to a POST and to a detail GET
PostResponses == {Failed, Ok([id |-> "e1", itemId |-> "i1"]), Ok([id |-> ""]), Ok(<<>>)}

Tokens == {[ok |-> TRUE, val |-> "bearer"], [ok |-> TRUE, val |-> ""], [ok |-> FALSE, val |-> ""]}

GoodToken == [ok |-> TRUE, val |-> "bearer"]

Arguments ==
    {None, Some([set_resource |-> TRUE, environment |-> "env1"]),
     Some([set_resource |-> FALSE]), Some([automation_flow_id |-> "f1"])}

WalkArguments == {Some([environment |-> "env1"]), Some([set_resource |-> FALSE])}

CalledTools ==
    {"retrieve-automation-flow-list", "retrieve-activity-log-list",
     "start-automation-flow", "retrieve-bogus", "bogus", "enqueue-invoice"}

Uris ==
    {[scheme |-> "automationflows", id |-> "e1"], [scheme |-> "activitylog", id |-> "e1"],
     [scheme |-> "workqueues", id |-> "e1"], [scheme |-> "https", id |-> "e1"]}

\* csv rows: the required columns and the queue id; the full row adds the
\* optional columns
BaseRow(name, schema) ==
    [name |-> name, description |-> "d", inputSchema |-> schema, workqueueid |-> "q1"]

FullRow(name, schema, priority) ==
    [name |-> name, description |-> "d", inputSchema |-> schema, workqueueid |-> "q1",
     keyValue |-> "K7", priority |-> priority, status |-> "New",
     tags |-> <<"a", ",", " ", "b">>]

\* the table of Spec and SpecWalk
DefaultTable == <<FullRow("enqueue-invoice", "{}", <<"5", "0">>)>>

\* the tables of SpecQueue: no priority column; empty, numeric and blank-
\* padded priorities; an unparsable priority and a row with bad JSON in the
\* middle; a table whose first row has bad JSON; a table of one row
Tables ==
    {<<BaseRow("enqueue-invoice", "{}"), BaseRow("enqueue-order", "{}")>>,
     <<FullRow("enqueue-invoice", "{}", <<>>),
       FullRow("enqueue-order", "{\"properties\": {\"invoice\": {}}}", <<"5", "0">>)>>,
     <<FullRow("enqueue-invoice", "{}", <<"a", "b", "c">>),
       FullRow("enqueue-bad", "{bad", <<"1">>),
       FullRow("enqueue-order", "{}", <<" ", "7">>)>>,
     <<BaseRow("enqueue-bad", "{bad"), BaseRow("enqueue-invoice", "{}")>>,
     <<FullRow("enqueue-invoice", "{}", <<"7">>)>>}

QueueTools == {"enqueue-invoice", "enqueue-order", "enqueue-bad"}

\* the tables of SpecDispatch: the default table, and a table whose rows are
\* named like built-in tools
ShadowTable ==
    <<BaseRow("start-automation-flow", "{}"),
      BaseRow("retrieve-automation-flow-list", "{}")>>

DispatchTables == {DefaultTable, ShadowTable}

DispatchTools ==
    {"start-automation-flow", "retrieve-automation-flow-list",
     "retrieve-activity-log-list", "retrieve-bogus", "enqueue-invoice", "bogus"}

DispatchArguments ==
    {None, Some([set_resource |-> TRUE]), Some([automation_flow_id |-> "f1"])}

\* one-page walks
DispatchPages ==
    {Failed, Ok(PageBody("items", <<ItemA>>, "nextPageToken", "")),
     Ok(PageBody("items", <<ItemC>>, "nextPageToken", ""))}

QueueArguments == {None, Some([invoice |-> "42"]), Some([set_resource |-> TRUE])}

(***************************************************************************)
(* Specifications.                                                         *)
(*   Spec       every handler, one caller, the default tool table          *)
(*   SpecWalk   the walker under one listing tool, rich pages              *)
(*   SpecQueue  the tool table and the work-queue tools                    *)
(*   SpecEnvelope  the walker under every shape of listing response        *)
(*   SpecDispatch  handle_call_tool under tables that name built-in tools  *)
(*   SpecRace   two overlapping retrievals of one kind                     *)
(*   SpecNotify a retrieval and, beside it, resource listings              *)
(***************************************************************************)
InitWith(rows) ==
    /\ csvfile = rows
    /\ internal_resources = main(rows)
    /\ resources = EmptyStores
    /\ call = [c \in Callers |-> Idle]

Init == InitWith(DefaultTable)

Next ==
    \E c \in SeqCallers :
        \/ \E name \in CalledTools, arguments \in Arguments, tok \in Tokens :
              \/ CallWorkQueue(c, name, arguments, tok)
              \/ CallStartFlow(c, name, arguments, tok)
              \/ CallRetrieve(c, name, arguments, tok)
              \/ CallUnknown(c, name, arguments)
        \/ \E resp \in PostResponses :
              \/ WorkQueueResponse(c, resp)
              \/ StartFlowResponse(c, resp)
              \/ ReadResponse(c, resp)
        \/ StartFlowNotified(c)
        \/ \E resp \in SpecPages(Len(call[c].walk) + 1 < MaxPages) : RetrievePage(c, resp)
        \/ RetrieveNotified(c)
        \/ handle_list_tools(c)
        \/ handle_list_resources(c)
        \/ \E uri \in Uris, tok \in Tokens : handle_read_resource(c, uri, tok)
        \/ Return(c)

Spec == Init /\ [][Next]_vars

NextWalk ==
    \E c \in SeqCallers :
        \/ \E arguments \in WalkArguments :
              CallRetrieve(c, "retrieve-automation-flow-list", arguments, GoodToken)
        \/ \E resp \in WalkPages(Len(call[c].walk) + 1 < MaxWalkPages) : RetrievePage(c, resp)
        \/ RetrieveNotified(c)
        \/ Return(c)

SpecWalk == Init /\ [][NextWalk]_vars

NextEnvelope ==
    \E c \in SeqCallers :
        \/ CallRetrieve(c, "retrieve-automation-flow-list",
                        Some([set_resource |-> FALSE]), GoodToken)
        \/ \E resp \in EnvelopePages(Len(call[c].walk) + 1 < MaxEnvelopePages) :
              RetrievePage(c, resp)
        \/ RetrieveNotified(c)
        \/ Return(c)

SpecEnvelope == Init /\ [][NextEnvelope]_vars

\* two callers, each suspended at its awaits; the event loop runs any
\* handler that is ready
NextRace ==
    \E c \in Callers :
        \/ \E arguments \in RaceArguments :
              CallRetrieve(c, "retrieve-automation-flow-list", arguments, GoodToken)
        \/ \E resp \in RacePages(Len(call[c].walk) + 1 < MaxRacePages) : RetrievePage(c, resp)
        \/ RetrieveNotified(c)
        \/ Return(c)

SpecRace == Init /\ [][NextRace]_vars

\* one caller retrieves while the other lists the resources
NextNotify ==
    \/ \E c \in SeqCallers :
          \/ \E arguments \in Arguments :
                CallRetrieve(c, "retrieve-automation-flow-list", arguments, GoodToken)
          \/ \E resp \in DispatchPages : RetrievePage(c, resp)
          \/ RetrieveNotified(c)
          \/ Return(c)
    \/ \E d \in Callers \ SeqCallers :
          \/ handle_list_resources(d)
          \/ Return(d)

SpecNotify == Init /\ [][NextNotify]_vars

InitQueue == \E rows \in Tables : InitWith(rows)

NextQueue ==
    \/ \E rows \in Tables : EditCsv(rows)
    \/ \E c \in SeqCallers :
        \/ \E name \in QueueTools, arguments \in QueueArguments, tok \in Tokens :
              \/ CallWorkQueue(c, name, arguments, tok)
              \/ CallUnknown(c, name, arguments)
        \/ \E resp \in PostResponses : WorkQueueResponse(c, resp)
        \/ handle_list_tools(c)
        \/ Return(c)

SpecQueue == InitQueue /\ [][NextQueue]_vars

NextDispatch ==
    \/ \E rows \in DispatchTables : EditCsv(rows)
    \/ \E c \in SeqCallers :
        \/ \E name \in DispatchTools, arguments \in DispatchArguments, tok \in Tokens :
              \/ CallWorkQueue(c, name, arguments, tok)
              \/ CallStartFlow(c, name, arguments, tok)
              \/ CallRetrieve(c, name, arguments, tok)
              \/ CallUnknown(c, name, arguments)
        \/ \E resp \in PostResponses :
              \/ WorkQueueResponse(c, resp)
              \/ StartFlowResponse(c, resp)
        \/ StartFlowNotified(c)
        \/ \E resp \in DispatchPages : RetrievePage(c, resp)
        \/ RetrieveNotified(c)
        \/ handle_list_tools(c)
        \/ Return(c)

SpecDispatch == Init /\ [][NextDispatch]_vars

(***************************************************************************)
(* Claims.                                                                 *)
(***************************************************************************)
\* the invocations of handle_call_tool that have returned or raised
Completed(c) == call[c].pc = "done" /\ call[c].op = "call_tool"

\* a retrieve-* invocation of a known listing tool that obtained its
\* credential: the walker ran (it issued its first listing request)
Retrieved(c) ==
    /\ call[c].op = "call_tool"
    /\ call[c].branch = "retrieve"
    /\ call[c].name \in ListingTools
    /\ call[c].reqs # <<>>

\* the caller passed set_resource true
AskedToPublish(c) == call[c].arguments # None /\ SetResource(call[c].arguments)

\* C1: for every tool name and every arguments value handle_call_tool
\* returns a textual result and never raises; for an unknown tool name the
\* error text contains the name.
C1_NeverRaises ==
    \A c \in Callers :
        Completed(c) =>
            /\ call[c].result.out = "text"
            /\ (call[c].branch = "unknown" \/ call[c].name = "retrieve-bogus")
                  => call[c].result.e = call[c].name

\* C2: a retrieve-* call that completes with set_resource true leaves the
\* published mapping of its kind equal to the staging mapping of that kind;
\* a retrieve-* call with set_resource false or absent, or with no arguments
\* at all, leaves the published mapping of its kind as it was at entry.
C2_PublishOnlyOnSetResource ==
    \A c \in Callers :
        (call[c].pc = "done" /\ call[c].op = "call_tool"
           /\ call[c].branch = "retrieve" /\ call[c].name \in ListingTools) =>
            LET K == RetrieveMapping(call[c].name).key
            IN  /\ (Retrieved(c) /\ AskedToPublish(c))
                      => resources[K] = internal_resources[K]
                /\ ~AskedToPublish(c) => resources[K] = call[c].res0[K]

\* a call with set_resource true has completed and replaced a different
\* published mapping by the rebuilt, non-empty staging mapping
C2_Witness ==
    \E c \in Callers :
        /\ call[c].pc = "done" /\ Retrieved(c) /\ AskedToPublish(c)
        /\ internal_resources[call[c].key] # EmptyDict
        /\ call[c].res0[call[c].key] # EmptyDict
        /\ call[c].res0[call[c].key] # internal_resources[call[c].key]
        /\ resources[call[c].key] = internal_resources[call[c].key]

\* a step replaces the published mapping of kind k by the whole staging
\* mapping of k
ReplacedByStaging(k) == resources'[k] = internal_resources[k]

\* a step of a start-automation-flow call registers one entry
\* {execution id: {"id": execution id}} in the published mapping of k
RegisteredExecution(k) ==
    \E c \in Callers :
        /\ call[c].branch = "startflow" /\ call[c].pc = "sf_post"
        /\ call'[c].answer # None
        /\ LET x == ExecId(call'[c].answer[1].body)
           IN  x # "" /\ resources'[k] = DictSet(resources[k], x, [id |-> x])

\* C3 as claimed: a published mapping is never updated entry by entry: every
\* change of a kind's published mapping replaces it by the whole staging
\* mapping of that kind (so it is always empty or a copy of an earlier staging
\* mapping).
C3_OnlySnapshots ==
    [][\A k \in Kinds : resources'[k] # resources[k] => ReplacedByStaging(k)]_vars

\* C3, amended: every change of a kind's published mapping replaces it by the
\* whole staging mapping of that kind, or is, for activity logs only, the
\* registration of one execution entry by a start-automation-flow call.
C3_SnapshotsOrExecutions ==
    [][\A k \in Kinds :
          resources'[k] # resources[k] =>
              \/ ReplacedByStaging(k)
              \/ k = "activitylogs" /\ RegisteredExecution(k)]_vars

\* the published activity logs hold an entity copied from staging next to an
\* execution entry registered by start-automation-flow
C3_Witness ==
    \E i, j \in 1..Len(resources["activitylogs"]) :
        /\ resources["activitylogs"][i][2] = [id |-> resources["activitylogs"][i][1]]
        /\ "name" \in DOMAIN resources["activitylogs"][j][2]
        /\ internal_resources["activitylogs"] # EmptyDict

\* the item list a listing response carries
PageList(body) ==
    IF "items" \in DOMAIN body THEN body["items"]
    ELSE IF "value" \in DOMAIN body THEN body["value"] ELSE <<>>

\* the entities of the pages of a walk, unwrapped, in the order received
RECURSIVE WalkEntities(_)
WalkEntities(walk) ==
    IF walk = <<>> THEN <<>>
    ELSE LET items == PageList(Head(walk))
         IN  [i \in 1..Len(items) |->
                 IF "entity" \in DOMAIN items[i] THEN items[i]["entity"] ELSE items[i]]
             \o WalkEntities(Tail(walk))

HasId(entity) == "id" \in DOMAIN entity /\ entity["id"] # ""

\* store is exactly the mapping of the entities es: one entry per truthy id
\* that occurs in es, holding the entity of the id's last occurrence, and
\* no other entry
BuiltFrom(store, es) ==
    /\ \A i, j \in 1..Len(store) : store[i][1] = store[j][1] => i = j
    /\ \A i \in 1..Len(store) :
          \E n \in 1..Len(es) : HasId(es[n]) /\ es[n]["id"] = store[i][1]
    /\ \A n \in 1..Len(es) :
          HasId(es[n]) =>
              \E i \in 1..Len(store) :
                  /\ store[i][1] = es[n]["id"]
                  /\ \E m \in n..Len(es) :
                        /\ HasId(es[m]) /\ es[m]["id"] = es[n]["id"]
                        /\ \A l \in (m + 1)..Len(es) :
                              ~(HasId(es[l]) /\ es[l]["id"] = es[n]["id"])
                        /\ store[i][2] = es[m]

\* the walker of invocation c has returned
WalkerReturned(c) == Retrieved(c) /\ call[c].pc \in {"rt_notify", "done"}

\* C4: with a single caller, when the walk of retrieve_entities for kind K
\* ends without a failed request, the staging mapping of K is exactly the
\* mapping built from the pages of this walk: nothing left from an earlier
\* retrieval, every entity with a truthy id under its id, no entity with an
\* empty or missing id, the latest occurrence stored for a repeated id.
C4_StagingIsTheWalk ==
    \A c \in Callers :
        (WalkerReturned(c) /\ ~call[c].failed) =>
            BuiltFrom(internal_resources[call[c].key], WalkEntities(call[c].walk))

\* a walk of several pages has returned in which an id occurred twice with
\* different entities and an entity had no truthy id; the later entity is
\* the one stored
C4_Witness ==
    \E c \in Callers :
        /\ WalkerReturned(c) /\ ~call[c].failed /\ Len(call[c].walk) >= 2
        /\ LET es == WalkEntities(call[c].walk)
               store == internal_resources[call[c].key]
           IN  /\ \E k \in 1..Len(es) : ~HasId(es[k])
               /\ \E m, n \in 1..Len(es) :
                     /\ m < n /\ HasId(es[m]) /\ HasId(es[n])
                     /\ es[m]["id"] = es[n]["id"] /\ es[m] # es[n]
                     /\ DictHas(store, es[n]["id"])
                     /\ DictGet(store, es[n]["id"]) = es[n]
               /\ Len(store) = 2

\* C5: when the request for page k fails, retrieve_entities does not raise:
\* the staging mapping holds exactly the entities of pages 1..k-1 of this
\* walk, the handler goes on with that store (notification, then a textual
\* non-error result counting its entries), and no request follows the failed
\* one.
C5_PartialOnFailure ==
    \A c \in Callers :
        (WalkerReturned(c) /\ call[c].failed) =>
            /\ BuiltFrom(internal_resources[call[c].key], WalkEntities(call[c].walk))
            /\ Len(call[c].reqs) = Len(call[c].walk) + 1
            /\ call[c].notified
            /\ (call[c].pc = "done" /\ call[c].arguments # None) =>
                  /\ call[c].result.out = "text"
                  /\ call[c].result.tmpl \in
                        {"Retrieved {n} {key}.\n{body}",
                         "Resource refreshed. Retrieved {n} {key}.\n{body}"}
                  /\ call[c].result.n = Len(internal_resources[call[c].key])

\* the second or a later request of a walk failed and the call returned the
\* non-empty store merged so far
C5_Witness ==
    \E c \in Callers :
        /\ call[c].pc = "done" /\ Retrieved(c) /\ call[c].failed
        /\ Len(call[c].walk) >= 1
        /\ internal_resources[call[c].key] # EmptyDict
        /\ call[c].result.n = Len(internal_resources[call[c].key])

\* the continuation value a page carries, "" if none
Continuation(body) ==
    IF "nextPageToken" \in DOMAIN body /\ body["nextPageToken"] # ""
    THEN body["nextPageToken"]
    ELSE IF "@odata.nextLink" \in DOMAIN body THEN body["@odata.nextLink"] ELSE ""

\* C6: after every page that carries a continuation value the next request
\* targets exactly that value with no query parameters if it is an absolute
\* URL, and otherwise the original listing URL of the walk with the value as
\* the `pagetoken` query parameter.
C6_NextRequest ==
    \A c \in Callers :
        Retrieved(c) =>
            \A i \in 1..Len(call[c].walk) :
                LET v == Continuation(call[c].walk[i])
                IN  v # "" =>
                      /\ i + 1 <= Len(call[c].reqs)
                      /\ call[c].reqs[i + 1].method = "GET"
                      /\ IF v \in NextLinks
                         THEN /\ call[c].reqs[i + 1].url = <<v>>
                              /\ DOMAIN call[c].reqs[i + 1].params = {}
                         ELSE /\ call[c].reqs[i + 1].url = call[c].reqs[1].url
                              /\ DOMAIN call[c].reqs[i + 1].params = {"pagetoken"}
                              /\ call[c].reqs[i + 1].params["pagetoken"] = v

\* the priority cell of the row a work-queue invocation is configured by
ConfiguredPriority(c) ==
    Get(DictGet(internal_resources["workqueues"], call[c].name), "priority")

\* every work-queue POST of invocation c carries priority n, and the call
\* did not fail on the priority
PostsPriority(c, n) ==
    /\ \A i \in 1..Len(call[c].reqs) :
          /\ call[c].reqs[i].url = <<"work-queues", "q1", "items">>
          /\ call[c].reqs[i].json[1].priority = n
    /\ call[c].result.e # "invalid literal for int() with base 10"
    /\ call[c].answer # None => call[c].reqs # <<>>

\* C7: a work-queue submission posts priority 100 when the configured
\* priority is absent or empty and the configured integer when it is a
\* decimal string ("50"); with an unparsable priority ("abc") it returns an
\* error result and sends no request to the work-queue items endpoint.
C7_Priority ==
    \A c \in Callers :
        (call[c].op = "call_tool" /\ call[c].branch = "workqueue") =>
            LET p == ConfiguredPriority(c)
            IN  /\ (p = None \/ p = Some(<<>>)) => PostsPriority(c, 100)
                /\ p = Some(<<"5", "0">>) => PostsPriority(c, 50)
                /\ p = Some(<<"a", "b", "c">>) =>
                      /\ call[c].reqs = <<>>
                      /\ call[c].pc = "done"
                      /\ call[c].result.out = "text"
                      /\ call[c].result.tmpl = "Error creating work queue item: {e}"

\* a submission configured with an empty priority cell has posted its
\* payload, with priority 100, and returned the created item
C7_Witness ==
    \E c \in Callers :
        /\ call[c].pc = "done" /\ call[c].branch = "workqueue"
        /\ ConfiguredPriority(c) = Some(<<>>)
        /\ Len(call[c].reqs) = 1
        /\ call[c].reqs[1].json[1].priority = 100
        /\ call[c].result.tmpl = "Work queue item created: {itemId}"

\* the step invocation c takes, if it is a step of a start-automation-flow
\* call: the step that receives a POST response with a non-empty execution
\* id adds {id: execution id} under that id to the published activity logs,
\* changes nothing else and signals the notification; any other step changes
\* no mapping and signals nothing, and a call that ends without such a
\* response ends in an error result
StartFlowStep(c) ==
    LET r == call[c]
        r2 == call'[c]
    IN  (r2.op = "call_tool" /\ r2.branch = "startflow" /\ r2 # r) =>
          IF r.pc = "sf_post" /\ r2.answer[1].ok /\ ExecId(r2.answer[1].body) # ""
          THEN LET x == ExecId(r2.answer[1].body)
               IN  /\ \A k \in Kinds \ {"activitylogs"} : resources'[k] = resources[k]
                   /\ DictHas(resources'["activitylogs"], x)
                   /\ DictGet(resources'["activitylogs"], x) = [id |-> x]
                   /\ {e \in DictItems(resources'["activitylogs"]) : e[1] # x}
                         = {e \in DictItems(resources["activitylogs"]) : e[1] # x}
                   /\ internal_resources' = internal_resources
                   /\ r2.notified
                   /\ r2.result.tmpl = "Started automation flow: {exec_id}"
                   /\ r2.result.e = x
          ELSE /\ resources' = resources
               /\ internal_resources' = internal_resources
               /\ r2.notified = r.notified
               /\ (r2.pc = "done" /\ r.pc # "sf_notify") =>
                     /\ r2.result.out = "text"
                     /\ r2.result.tmpl = "Error starting automation flow: {e}"
                     /\ ~r2.notified

\* C8: a start-automation-flow call whose POST response carries a non-empty
\* execution id adds {id: execution id} under that id to the published
\* activity logs, leaves staging untouched and signals resource-list-changed;
\* a call without arguments.automation_flow_id, with a failed request or with
\* a response lacking the id returns an error result, changes no mapping and
\* signals nothing.
C8_StartFlow == [][\A c \in Callers : StartFlowStep(c)]_vars

\* a start-automation-flow call has returned after registering its execution
\* in the published activity logs, beside a non-empty and different staging
C8_Witness ==
    \E c \in Callers :
        /\ call[c].pc = "done" /\ call[c].branch = "startflow" /\ call[c].notified
        /\ call[c].result.tmpl = "Started automation flow: {exec_id}"
        /\ DictHas(resources["activitylogs"], call[c].result.e)
        /\ DictGet(resources["activitylogs"], call[c].result.e) = [id |-> call[c].result.e]
        /\ internal_resources["activitylogs"] # EmptyDict
        /\ resources["activitylogs"] # call[c].res0["activitylogs"]

\* C9: a retrieve-* call of a known listing tool that obtained its credential
\* returns the formatted listing of the staging mapping, prefixed with the
\* "refreshed" notice (and published) iff the caller passed set_resource
\* true, and as plain non-error output without publishing otherwise, also
\* when the caller passed no arguments at all.
C9_ListingOutput ==
    \A c \in Callers :
        (call[c].pc = "done" /\ Retrieved(c)) =>
            LET K == RetrieveMapping(call[c].name).key
                store == internal_resources[K]
            IN  /\ call[c].result.out = "text"
                /\ call[c].result.n = Len(store)
                /\ call[c].result.body =
                      format_resource_result(store, RetrieveMapping(call[c].name).fields)
                /\ IF AskedToPublish(c)
                   THEN /\ call[c].result.tmpl =
                              "Resource refreshed. Retrieved {n} {key}.\n{body}"
                        /\ resources[K] = store
                   ELSE /\ call[c].result.tmpl = "Retrieved {n} {key}.\n{body}"
                        /\ resources[K] = call[c].res0[K]

\* C10: every failure of a resource read (unsupported URI scheme, credential
\* failure, failed detail request) is returned as a textual error payload;
\* handle_read_resource never raises.
C10_ReadNeverRaises ==
    \A c \in Callers :
        (call[c].pc = "done" /\ call[c].op = "read_resource") =>
            call[c].result.out = "text"

\* the input-shape cell of a row is not JSON
BadJson(row) == row["inputSchema"] = "{bad"

\* the index of the first row with an invalid input shape, Len + 1 if none
FirstBad(rows) ==
    IF \E i \in 1..Len(rows) : BadJson(rows[i])
    THEN CHOOSE i \in 1..Len(rows) :
            BadJson(rows[i]) /\ \A j \in 1..(i - 1) : ~BadJson(rows[j])
    ELSE Len(rows) + 1

\* the step of c is a load of the dynamic table by handle_list_tools
LoadStep(c) == call[c].pc = "idle" /\ call'[c].op = "list_tools"

\* the descriptors a tool listing returned after the first n
DynamicPart(body, n) == SubSeq(body, n + 1, Len(body))

\* the step registers exactly rows 1..n of the table in the lookup: each of
\* their names maps to the last of these rows with that name, every other
\* key is a key the lookup had, with its entry unchanged
RegistersRows(rows, n) ==
    LET wq == internal_resources["workqueues"]
        wq2 == internal_resources'["workqueues"]
    IN  /\ \A j \in 1..n :
              /\ DictHas(wq2, rows[j]["name"])
              /\ \E m \in j..n :
                    /\ rows[m]["name"] = rows[j]["name"]
                    /\ \A l \in (m + 1)..n : rows[l]["name"] # rows[j]["name"]
                    /\ DictGet(wq2, rows[j]["name"]) = rows[m]
        /\ \A k \in DictKeys(wq2) :
              (\A j \in 1..n : rows[j]["name"] # k) =>
                  DictHas(wq, k) /\ DictGet(wq2, k) = DictGet(wq, k)

\* C11: a load of a table in which row i is the first row with an invalid
\* input-shape JSON returns exactly the descriptors of rows 1..i-1 in table
\* order and registers exactly rows 1..i-1 in the work-queue lookup; the bad
\* row and the rows after it are neither returned nor registered, and the
\* load does not raise.
C11_LoadStopsAtBadRow ==
    [][\A c \in Callers :
          (LoadStep(c) /\ FirstBad(csvfile) <= Len(csvfile)) =>
              LET i == FirstBad(csvfile)
                  dyn == DynamicPart(call'[c].result.body, Len(FixedTools))
              IN  /\ call'[c].result.out = "tools"
                  /\ Len(dyn) = i - 1
                  /\ \A j \in 1..(i - 1) :
                        /\ dyn[j].name = csvfile[j]["name"]
                        /\ dyn[j].description = csvfile[j]["description"]
                  /\ RegistersRows(csvfile, i - 1)]_vars

\* a listing has loaded a three-row table whose second row is bad: one
\* dynamic descriptor was returned, and neither the bad row nor the good row
\* after it is in the lookup
C11_Witness ==
    \E c \in Callers :
        /\ call[c].op = "list_tools" /\ call[c].pc = "done"
        /\ Len(csvfile) = 3 /\ FirstBad(csvfile) = 2
        /\ Len(call[c].result.body) = Len(FixedTools) + 1
        /\ call[c].result.body[Len(FixedTools) + 1].name = csvfile[1]["name"]
        /\ DictKeys(internal_resources["workqueues"]) = {csvfile[1]["name"]}

\* C12: every tool listing returns the five built-in descriptors in their
\* order first, followed by the dynamically loaded descriptors in table
\* order, whatever the table holds and whatever was loaded before.
C12_BuiltInsFirst ==
    [][\A c \in Callers :
          LoadStep(c) =>
              LET body == call'[c].result.body
                  n == FirstBad(csvfile) - 1
              IN  /\ call'[c].result.out = "tools"
                  /\ Len(body) = 5 + n
                  /\ body[1].name = "retrieve-automation-flow-list"
                  /\ body[2].name = "start-automation-flow"
                  /\ body[3].name = "retrieve-activity-log-list"
                  /\ body[4].name = "retrieve-digital-worker-list"
                  /\ body[5].name = "retrieve-session-list"
                  /\ \A j \in 1..n : body[5 + j].name = csvfile[j]["name"]]_vars

\* a listing of a table of two good rows returned the five built-ins
\* followed by the two dynamic descriptors in table order
C12_Witness ==
    \E c \in Callers :
        /\ call[c].op = "list_tools" /\ call[c].pc = "done"
        /\ Len(call[c].result.body) = 7
        /\ call[c].result.body[6].name = "enqueue-invoice"
        /\ call[c].result.body[7].name = "enqueue-order"
        /\ Len(csvfile) = 2 /\ FirstBad(csvfile) = 3

\* text is the table of store projected on fields: per entry, in the store's
\* insertion order, the id and then, each after a "|", the value of every
\* field ("" when the entity lacks it); a newline between two entries
IsTable(text, store, fields) ==
    LET w == 2 * Len(fields) + 1
    IN  /\ Len(text) = IF store = <<>> THEN 0 ELSE Len(store) * (w + 1) - 1
        /\ \A i \in 1..Len(store) :
              LET b == (i - 1) * (w + 1)
              IN  /\ text[b + 1] = store[i][1]
                  /\ \A j \in 1..Len(fields) :
                        /\ text[b + 2 * j] = "|"
                        /\ text[b + 2 * j + 1] =
                              IF fields[j] \in DOMAIN store[i][2]
                              THEN store[i][2][fields[j]] ELSE ""
                  /\ i < Len(store) => text[b + w + 1] = "\n"

\* C13: format_resource_result yields one line per entity in the mapping's
\* insertion order, each line the entity id followed by the value of each
\* projected field (empty when the field is absent) joined with "|", the
\* lines joined with newline.
C13_FormatIsTable ==
    \A c \in Callers :
        (call[c].pc = "done" /\ Retrieved(c) /\ call[c].result.out = "text"
           /\ call[c].result.tmpl # "Error {key}: {e}") =>
            IsTable(call[c].result.body, internal_resources[call[c].key],
                    <<"name", "description">>)

\* a call returned the table of a mapping of two entities, the one inserted
\* first on the first line, each with its name and an empty description
C13_Witness ==
    \E c \in Callers :
        /\ call[c].pc = "done" /\ Retrieved(c)
        /\ internal_resources[call[c].key] =
              <<(<<"e2", [id |-> "e2", name |-> "A"]>>),
                (<<"e1", [id |-> "e1", name |-> "B"]>>)>>
        /\ call[c].result.body =
              <<"e2", "|", "A", "|", "", "\n", "e1", "|", "B", "|", "">>

\* C14: the walker issues a further request after a page if and only if the
\* page carries a continuation value, however many items the page holds
\* (none, or neither `items` nor `value`); the walk ends at the first page
\* with neither continuation field, or at the first failed request.
C14_ContinuesIffToken ==
    \A c \in Callers :
        Retrieved(c) =>
            /\ \A i \in 1..Len(call[c].walk) :
                  (Len(call[c].reqs) >= i + 1) <=> (Continuation(call[c].walk[i]) # "")
            /\ WalkerReturned(c) <=>
                  \/ call[c].failed
                  \/ /\ call[c].walk # <<>>
                     /\ Continuation(call[c].walk[Len(call[c].walk)]) = ""
            /\ Len(call[c].reqs) <= Len(call[c].walk) + 1

\* a page with neither `items` nor `value` but a page token was followed by
\* a second request, and the walk ended at the second page, which had no
\* continuation
C14_Witness ==
    \E c \in Callers :
        /\ WalkerReturned(c) /\ ~call[c].failed
        /\ Len(call[c].walk) = 2 /\ Len(call[c].reqs) = 2
        /\ DOMAIN call[c].walk[1] = {"nextPageToken"}
        /\ internal_resources[call[c].key] # EmptyDict

\* the mapping the walk builds when every page contributes the list of its
\* `items` field if it has one, and of its `value` field otherwise
RECURSIVE ItemsFirstMapping(_, _)
ItemsFirstMapping(store, walk) ==
    IF walk = <<>> THEN store
    ELSE ItemsFirstMapping(MergePage(store, PageList(Head(walk))), Tail(walk))

\* the page with its item list moved to the other envelope field, when it
\* has exactly one of the two
SwapEnvelope(body) ==
    IF "items" \in DOMAIN body /\ "value" \notin DOMAIN body
    THEN [k \in (DOMAIN body \ {"items"}) \cup {"value"} |->
             IF k = "value" THEN body["items"] ELSE body[k]]
    ELSE IF "value" \in DOMAIN body /\ "items" \notin DOMAIN body
    THEN [k \in (DOMAIN body \ {"value"}) \cup {"items"} |->
             IF k = "items" THEN body["value"] ELSE body[k]]
    ELSE body

\* the mapping the code builds from a walk
RECURSIVE WalkMapping(_, _)
WalkMapping(store, walk) ==
    IF walk = <<>> THEN store
    ELSE WalkMapping(MergePage(store, PageItems(Head(walk))), Tail(walk))

\* C15: for every page the entities merged are those of `items` whenever
\* the response has an `items` field (also when it is empty and `value` is
\* present too) and those of `value` only when `items` is not present; two
\* walks whose pages differ only in the envelope field that carries the
\* item list build equal mappings.
C15_ItemsFirst ==
    \A c \in Callers :
        (WalkerReturned(c) /\ ~call[c].failed) =>
            /\ internal_resources[call[c].key] = ItemsFirstMapping(EmptyDict, call[c].walk)
            /\ WalkMapping(EmptyDict, [i \in 1..Len(call[c].walk) |->
                                         SwapEnvelope(call[c].walk[i])])
                  = WalkMapping(EmptyDict, call[c].walk)

\* the step of c enters handle_call_tool
CallStep(c) == call[c].pc = "idle" /\ call'[c].op = "call_tool"

\* the step of c is a step of a call executed as a work-queue submission
WorkQueueStep(c) ==
    call'[c].op = "call_tool" /\ call'[c].branch = "workqueue" /\ call'[c] # call[c]

\* C16: dispatch is first match wins in the order work-queue configuration,
\* start-automation-flow, `retrieve-` prefix, unknown: a name that is a key
\* of the work-queue lookup is executed as a work-queue submission, never as
\* a flow start or a retrieval, also when it is start-automation-flow or a
\* retrieve-* tool name, and then no staging or published mapping changes.
C16_DispatchOrder ==
    [][\A c \in Callers :
          /\ CallStep(c) =>
                LET name == call'[c].name
                IN  call'[c].branch =
                      IF DictHas(internal_resources["workqueues"], name) THEN "workqueue"
                      ELSE IF name = "start-automation-flow" THEN "startflow"
                      ELSE IF name \in ListingTools \cup {"retrieve-bogus"} THEN "retrieve"
                      ELSE "unknown"
          /\ WorkQueueStep(c) =>
                /\ internal_resources' = internal_resources
                /\ resources' = resources
                /\ ~call'[c].notified
                /\ \A i \in 1..Len(call'[c].reqs) :
                      /\ call'[c].reqs[i].method = "POST"
                      /\ call'[c].reqs[i].url[1] = "work-queues"
                /\ call'[c].pc = "done" =>
                      call'[c].result.tmpl \in
                         {"Work queue item created: {itemId}",
                          "Error creating work queue item: {e}"}]_vars

\* a call of retrieve-automation-flow-list was executed as a work-queue
\* submission and created an item, beside a non-empty staging mapping of the
\* automation flows that it left alone
C16_Witness ==
    \E c \in Callers :
        /\ call[c].pc = "done" /\ call[c].name = "retrieve-automation-flow-list"
        /\ call[c].branch = "workqueue"
        /\ call[c].result.tmpl = "Work queue item created: {itemId}"
        /\ Len(call[c].reqs) = 1
        /\ internal_resources["automationflows"] # EmptyDict
        /\ DictHas(internal_resources["workqueues"], "start-automation-flow")

\* the names of the rows a load of the table registers
LoadedNames(rows) == {rows[j]["name"] : j \in 1..(FirstBad(rows) - 1)}

\* C17: the work-queue lookup never loses a key: a load only adds entries or
\* overwrites the entry of a name it loads, and no other step changes the
\* lookup, so a tool whose row was deleted from the table stays dispatchable
\* as a work-queue tool after later loads.
C17_LookupOnlyGrows ==
    [][LET wq == internal_resources["workqueues"]
           wq2 == internal_resources'["workqueues"]
       IN  /\ DictKeys(wq) \subseteq DictKeys(wq2)
           /\ \A k \in DictKeys(wq) :
                 DictGet(wq2, k) # DictGet(wq, k) =>
                     /\ k \in LoadedNames(csvfile)
                     /\ \E c \in Callers : LoadStep(c)
           /\ (\A c \in Callers : ~LoadStep(c)) => wq2 = wq]_vars

\* after the table was reduced to the one row enqueue-invoice and loaded, a
\* call of enqueue-order, whose row is gone, was dispatched as a work-queue
\* submission and created an item
C17_Witness ==
    \E c \in Callers :
        /\ call[c].pc = "done" /\ call[c].branch = "workqueue"
        /\ call[c].name = "enqueue-order"
        /\ call[c].result.tmpl = "Work queue item created: {itemId}"
        /\ csvfile = <<FullRow("enqueue-invoice", "{}", <<"7">>)>>
        /\ DictGet(internal_resources["workqueues"], "enqueue-invoice") = csvfile[1]

\* C18: reloading the dynamic tool table is idempotent and last load wins
\* with no merge with previous state: after any load the configurations
\* referenced at dispatch time are exactly the rows of that load, and
\* loading the same table again gives the same state.
C18_LastLoadWins ==
    [][\A c \in Callers :
          LoadStep(c) =>
              LET wq2 == internal_resources'["workqueues"]
                  n == FirstBad(csvfile) - 1
              IN  /\ DictKeys(wq2) = LoadedNames(csvfile)
                  /\ \A k \in DictKeys(wq2) :
                        \E j \in 1..n : csvfile[j]["name"] = k /\ DictGet(wq2, k) = csvfile[j]
                  /\ load_tools_from_csv(csvfile, wq2).workqueues = wq2]_vars

\* the mapping of the pages invocation c itself has received
OwnMapping(c) == WalkMapping(EmptyDict, call[c].walk)

\* C19: retrievals are not serialized per kind: the clear and write steps of
\* two overlapping retrieve-* calls of a kind interleave on the one shared
\* staging mapping.  The entry of one call clears what the other has merged
\* so far; a page is merged into whatever the shared mapping holds; a call
\* returns and publishes the shared mapping as it is then.  (The state in
\* which a call returns or publishes a mapping that is not the union of its
\* own pages is C19_Witness.)
C19_SharedStaging ==
    [][\A c \in Callers :
          LET r == call[c]
              r2 == call'[c]
          IN  /\ (r.pc = "idle" /\ r2.pc = "rt_get") =>
                    internal_resources'[r2.key] = EmptyDict
              /\ (r.pc = "rt_get" /\ r2 # r /\ ~r2.failed) =>
                    internal_resources'[r.key] =
                       MergePage(internal_resources[r.key],
                                 PageItems(r2.walk[Len(r2.walk)]))
              /\ (r.pc = "rt_notify" /\ r2.pc = "done") =>
                    /\ r2.result.n = Len(internal_resources[r.key])
                    /\ r2.result.body =
                          format_resource_result(internal_resources[r.key],
                                                 <<"name", "description">>)
                    /\ AskedToPublish(c) =>
                          resources'[r.key] = internal_resources[r.key]]_vars

\* two calls overlapped and one of them, none of whose requests failed, has
\* returned with set_resource true a table that is not the table of its own
\* pages, the other call being still in its walk
C19_Witness ==
    \E c, d \in Callers :
        /\ c # d
        /\ call[c].pc = "done" /\ Retrieved(c) /\ ~call[c].failed /\ AskedToPublish(c)
        /\ call[d].pc = "rt_get" /\ call[d].key = call[c].key
        /\ call[c].result.body #
              format_resource_result(OwnMapping(c), <<"name", "description">>)
        /\ resources[call[c].key] # OwnMapping(c)

\* the step of c is a step of a retrieve-* call
RetrieveStep(c) ==
    call'[c].op = "call_tool" /\ call'[c].branch = "retrieve" /\ call'[c] # call[c]

\* C20: a retrieve-* call for kind K changes only the staging mapping of K
\* and, with set_resource true, the published mapping of K; the mappings of
\* every other kind and the work-queue lookup are unchanged; a work-queue
\* submission changes no staging or published mapping.
C20_Frame ==
    [][\A c \in Callers :
          /\ RetrieveStep(c) =>
                LET K == RetrieveMapping(call'[c].name).key
                    asked == call'[c].arguments # None /\ SetResource(call'[c].arguments)
                IN  /\ \A k \in Kinds \ {K} :
                          /\ internal_resources'[k] = internal_resources[k]
                          /\ resources'[k] = resources[k]
                    /\ internal_resources'["workqueues"] = internal_resources["workqueues"]
                    /\ ~asked => resources' = resources
                    /\ call'[c].name \notin ListingTools =>
                          internal_resources' = internal_resources /\ resources' = resources
          /\ WorkQueueStep(c) =>
                internal_resources' = internal_resources /\ resources' = resources]_vars

\* a retrieval of the activity logs with set_resource true has rebuilt and
\* published their mapping, beside non-empty and different staging and
\* published mappings of the automation flows and the work-queue lookup
C20_Witness ==
    \E c \in Callers :
        /\ call[c].pc = "done" /\ Retrieved(c) /\ AskedToPublish(c)
        /\ call[c].name = "retrieve-activity-log-list"
        /\ resources["activitylogs"] # call[c].res0["activitylogs"]
        /\ resources["activitylogs"] # EmptyDict
        /\ internal_resources["automationflows"] # EmptyDict
        /\ resources["automationflows"] # EmptyDict
        /\ resources["automationflows"] # resources["activitylogs"]
        /\ internal_resources["automationflows"] # resources["automationflows"]
        /\ internal_resources["workqueues"] # EmptyDict

\* the errors of credential acquisition: get_access_token raised, or the
\* token was empty
CredentialErrors == {"token request failed", "Invalid Client ID or Secret"}

\* C21: when credential acquisition fails in a retrieve-* call, the call
\* returns an error result, the staging mapping of the kind is not cleared,
\* the published mapping is unchanged, no listing request is issued and no
\* notification is signalled; the staging mapping is cleared only once a
\* credential has been obtained.
C21_CredentialFirst ==
    [][\A c \in Callers :
          (CallStep(c) /\ call'[c].branch = "retrieve"
             /\ call'[c].name \in ListingTools) =>
              LET r2 == call'[c]
                  K == RetrieveMapping(r2.name).key
              IN  IF r2.pc = "done"
                  THEN /\ r2.result.out = "text"
                       /\ r2.result.tmpl = "Error {key}: {e}"
                       /\ r2.result.key = K
                       /\ r2.result.e \in CredentialErrors
                       /\ r2.reqs = <<>>
                       /\ ~r2.notified
                       /\ internal_resources' = internal_resources
                       /\ resources' = resources
                  ELSE /\ r2.pc = "rt_get"
                       /\ Len(r2.reqs) = 1
                       /\ internal_resources'[K] = EmptyDict
                       /\ resources' = resources]_vars

\* a retrieval whose credential acquisition failed has returned its error
\* and left a non-empty staging mapping and a different, non-empty published
\* mapping of its kind in place
C21_Witness ==
    \E c \in Callers :
        /\ call[c].pc = "done" /\ call[c].branch = "retrieve"
        /\ call[c].name \in ListingTools
        /\ call[c].reqs = <<>> /\ ~call[c].notified
        /\ call[c].result.e = "token request failed"
        /\ internal_resources[call[c].key] # EmptyDict
        /\ resources[call[c].key] # EmptyDict
        /\ resources[call[c].key] # internal_resources[call[c].key]

\* the step of d serves a resource listing
ListingStep(d) == call[d].pc = "idle" /\ call'[d].op = "list_resources"

\* C22: in a retrieve-* call the notification is signalled after the walker
\* has returned and before the published mapping is replaced, whether or not
\* set_resource is true; a resource listing served between the notification
\* and the publish step, or after a call without set_resource, shows the
\* published mapping as it was before the call.
C22_NotifyBeforePublish ==
    [][\A c \in Callers :
          /\ RetrieveStep(c) =>
                LET r == call[c]
                    r2 == call'[c]
                IN  /\ (r2.notified /\ ~r.notified) =>
                          /\ r.pc = "rt_get" /\ r2.pc = "rt_notify"
                          /\ resources' = resources
                    /\ (r.pc = "rt_get" /\ r2.pc # "rt_get") =>
                          r2.pc = "rt_notify" /\ r2.notified
                    /\ resources' # resources =>
                          /\ r.pc = "rt_notify" /\ r.notified /\ r2.pc = "done"
                          /\ AskedToPublish(c)
          /\ \A d \in Callers \ {c} :
                (ListingStep(d) /\ Retrieved(c)
                   /\ (call[c].pc = "rt_notify"
                          \/ (call[c].pc = "done" /\ ~AskedToPublish(c)))) =>
                    call'[d].result.body = ListedResources(call[c].res0, KindOrder)]_vars

\* a retrieval with set_resource true has signalled the notification and
\* not yet published; a listing served meanwhile shows the previous
\* published mapping, which is not empty and not the rebuilt staging mapping
C22_Witness ==
    \E c, d \in Callers :
        /\ c # d
        /\ call[c].pc = "rt_notify" /\ call[c].notified /\ AskedToPublish(c)
        /\ call[d].pc = "done" /\ call[d].op = "list_resources"
        /\ call[d].result.body = ListedResources(call[c].res0, KindOrder)
        /\ call[d].result.body # <<>>
        /\ resources = call[c].res0
        /\ internal_resources[call[c].key] # resources[call[c].key]
        /\ internal_resources[call[c].key] # EmptyDict

=============================================================================
